---- MODULE Spec2Model ----
(***************************************************************************)
(* Model of the releases worker (src/src/lib.rs): the three route handlers *)
(* get_total_downloads, get_release and get_download, the resolver         *)
(* parse_releases, the suffix tables and the Workers KV namespace they     *)
(* share.                                                                  *)
(*                                                                         *)
(* Strings whose characters the code inspects (tags, asset names, targets, *)
(* suffixes) are sequences of one-character strings.  Strings the code     *)
(* only copies or compares as a whole (URLs, messages, kv keys) are TLA+   *)
(* strings.  A timestamp string is a record: either a text that            *)
(* DateTime::parse_from_rfc3339 accepts (valid, with its epoch seconds and *)
(* the way its offset is written) or a text it rejects.                    *)
(*                                                                         *)
(* Specifications:                                                         *)
(*   Spec           the routes, one request at a time                      *)
(*   ConcSpec       requests of one route in flight together, await by     *)
(*                  await                                                  *)
(*   SelectorSpec   the two selection rules on their own                   *)
(*   ResolverSpec   parse_releases on its own                              *)
(*   MatcherSpec    the suffix tables on their own                         *)
(*   SanitizerSpec  clean_markdown on its own                              *)
(***************************************************************************)
EXTENDS Integers, Sequences, FiniteSets, TLC

VARIABLES
    store,      \* the KV namespace KV_CHUNKVAULT_DOWNLOADS: key -> stored JSON value
    now,        \* chrono::Utc::now().timestamp()
    last,       \* the request handled last and its response
    sel,        \* inputs and results of the selection rules run on their own
    conc,       \* requests of one route in flight at the same time, step by step
    san,        \* a text given to clean_markdown and what it becomes
    mat,        \* a target and an arch given to the suffix tables and what they return
    res         \* the arguments of a parse_releases call and its result

vars == <<store, now, last, sel, conc, san, mat, res>>

(***************************************************************************)
(* Bounds of the model.                                                    *)
(***************************************************************************)
MaxWindows == 1     \* the clock runs over this many freshness windows
MaxLen == 3         \* longest tag list given to the selection rules
MaxProcs == 2       \* requests in flight together
MaxText == 4        \* longest text given to clean_markdown

(***************************************************************************)
(* Program constants.                                                      *)
(***************************************************************************)
Window == 300       \* seconds a cached entry stays fresh

(***************************************************************************)
(* Characters and strings.                                                 *)
(***************************************************************************)
Digits == {"0", "1", "2", "3", "4", "5", "6", "7", "8", "9"}

DigitVal(c) ==
    CASE c = "0" -> 0 [] c = "1" -> 1 [] c = "2" -> 2 [] c = "3" -> 3
      [] c = "4" -> 4 [] c = "5" -> 5 [] c = "6" -> 6 [] c = "7" -> 7
      [] c = "8" -> 8 [] c = "9" -> 9

UpperCase ==
    <<"A", "B", "C", "D", "E", "F", "G", "H", "I", "J", "K", "L", "M",
      "N", "O", "P", "Q", "R", "S", "T", "U", "V", "W", "X", "Y", "Z">>

LowerCase ==
    <<"a", "b", "c", "d", "e", "f", "g", "h", "i", "j", "k", "l", "m",
      "n", "o", "p", "q", "r", "s", "t", "u", "v", "w", "x", "y", "z">>

\* char::to_lowercase (ASCII letters; every other character is kept)
LowerChar(c) ==
    IF \E i \in 1..26 : UpperCase[i] = c
    THEN LowerCase[CHOOSE i \in 1..26 : UpperCase[i] = c]
    ELSE c

\* str::to_lowercase
to_lowercase(s) == [i \in 1..Len(s) |-> LowerChar(s[i])]

\* str::ends_with: every string ends with the empty string
ends_with(s, suffix) ==
    /\ Len(suffix) <= Len(s)
    /\ SubSeq(s, Len(s) - Len(suffix) + 1, Len(s)) = suffix

\* str::trim_start_matches('v'): every leading 'v' is removed
RECURSIVE trim_start_matches_v(_)
trim_start_matches_v(s) ==
    IF s # <<>> /\ s[1] = "v" THEN trim_start_matches_v(Tail(s)) ELSE s

Min(S) == CHOOSE m \in S : \A n \in S : m <= n

(***************************************************************************)
(* Timestamps.  A timestamp string either parses as RFC 3339 (valid: its   *)
(* epoch seconds, and its offset written "Z" or "+00:00") or does not.     *)
(***************************************************************************)
Rfc3339(t, form) == [valid |-> TRUE, secs |-> t, form |-> form]

NotADate(text) == [valid |-> FALSE, secs |-> 0, form |-> text]

EmptyString == NotADate("")

\* a parse that takes a text it cannot read for the epoch instead of failing
parse_from_rfc3339_or_epoch(s) == [ok |-> TRUE, ts |-> s.secs]

\* DateTime::parse_from_rfc3339
parse_from_rfc3339(s) == [ok |-> s.valid, ts |-> s.secs]

\* DateTime::to_rfc3339: a zero offset is written "+00:00"
to_rfc3339(ts) == Rfc3339(ts, "+00:00")

(***************************************************************************)
(* AssetMatcher: the suffix tables.                                        *)
(***************************************************************************)
S_dmg == <<".", "d", "m", "g">>
S_AppImage == <<".", "A", "p", "p", "I", "m", "a", "g", "e">>
S_setup_exe == <<"-", "s", "e", "t", "u", "p", ".", "e", "x", "e">>
S_app_tar_gz == <<".", "a", "p", "p", ".", "t", "a", "r", ".", "g", "z">>
S_app_tar_gz_sig == S_app_tar_gz \o <<".", "s", "i", "g">>
S_AppImage_tar_gz == S_AppImage \o <<".", "t", "a", "r", ".", "g", "z">>
S_AppImage_tar_gz_sig == S_AppImage_tar_gz \o <<".", "s", "i", "g">>
S_nsis_zip == <<".", "n", "s", "i", "s", ".", "z", "i", "p">>
S_nsis_zip_sig == S_nsis_zip \o <<".", "s", "i", "g">>

T_mac == <<"m", "a", "c">>
T_macos == <<"m", "a", "c", "o", "s">>
T_darwin == <<"d", "a", "r", "w", "i", "n">>
T_linux == <<"l", "i", "n", "u", "x">>
T_windows == <<"w", "i", "n", "d", "o", "w", "s">>

\* the install suffix looked up without lowercasing the target
get_download_extension_exact(target, arch) ==
    CASE target = T_mac -> S_dmg
      [] target = T_macos -> S_dmg
      [] target = T_darwin -> S_dmg
      [] target = T_linux -> S_AppImage
      [] target = T_windows -> S_setup_exe
      [] OTHER -> <<>>

get_download_extension(target, arch) ==
    LET t == to_lowercase(target) IN
    CASE t = T_mac -> S_dmg
      [] t = T_macos -> S_dmg
      [] t = T_darwin -> S_dmg
      [] t = T_linux -> S_AppImage
      [] t = T_windows -> S_setup_exe
      [] OTHER -> <<>>

get_update_extension(target, arch) ==
    LET t == to_lowercase(target) IN
    CASE t = T_mac -> <<S_app_tar_gz, S_app_tar_gz_sig>>
      [] t = T_macos -> <<S_app_tar_gz, S_app_tar_gz_sig>>
      [] t = T_darwin -> <<S_app_tar_gz, S_app_tar_gz_sig>>
      [] t = T_linux -> <<S_AppImage_tar_gz, S_AppImage_tar_gz_sig>>
      [] t = T_windows -> <<S_nsis_zip, S_nsis_zip_sig>>
      [] OTHER -> << <<>>, <<>> >>

(***************************************************************************)
(* semver::Version on tags written with digits, dots and letters (no       *)
(* pre-release or build part): three dot-separated numbers without leading *)
(* zeros; anything else is a parse error.                                  *)
(***************************************************************************)
RECURSIVE NumVal(_)
NumVal(s) ==
    IF s = <<>> THEN 0
    ELSE 10 * NumVal(SubSeq(s, 1, Len(s) - 1)) + DigitVal(s[Len(s)])

IsNumericIdent(s) ==
    /\ Len(s) > 0
    /\ \A i \in 1..Len(s) : s[i] \in Digits
    /\ (Len(s) > 1 => s[1] # "0")

\* Version::parse
VersionParse(s) ==
    LET dots == {i \in 1..Len(s) : s[i] = "."} IN
    IF Cardinality(dots) # 2 THEN [ok |-> FALSE, v |-> <<0, 0, 0>>]
    ELSE LET d1 == Min(dots)
             d2 == Min(dots \ {d1})
             a == SubSeq(s, 1, d1 - 1)
             b == SubSeq(s, d1 + 1, d2 - 1)
             c == SubSeq(s, d2 + 1, Len(s))
         IN IF IsNumericIdent(a) /\ IsNumericIdent(b) /\ IsNumericIdent(c)
            THEN [ok |-> TRUE, v |-> <<NumVal(a), NumVal(b), NumVal(c)>>]
            ELSE [ok |-> FALSE, v |-> <<0, 0, 0>>]

\* Version::parse(tag.trim_start_matches('v')).unwrap_or_else(|_| Version::new(0, 0, 0))
TagVersion(tag) ==
    LET p == VersionParse(trim_start_matches_v(tag)) IN
    IF p.ok THEN p.v ELSE <<0, 0, 0>>

\* Version::cmp: "less", "equal" or "greater"
VersionCmp(a, b) ==
    CASE a[1] # b[1] -> IF a[1] < b[1] THEN "less" ELSE "greater"
      [] a[2] # b[2] -> IF a[2] < b[2] THEN "less" ELSE "greater"
      [] a[3] # b[3] -> IF a[3] < b[3] THEN "less" ELSE "greater"
      [] OTHER -> "equal"


(***************************************************************************)
(* NotesSanitizer: clean_markdown.  Each regex::replace_all scans from the *)
(* left, replaces the leftmost match and goes on after it; "." matches no  *)
(* line break and ".*?" takes the shortest text that lets the rest match.  *)
(***************************************************************************)
SpecificText ==
    <<"*", "*", "_", "S", "e", "e", " ", "t", "h", "e", " ", "a", "s", "s",
      "e", "t", "s", " ", "t", "o", " ", "d", "o", "w", "n", "l", "o", "a",
      "d", " ", "a", "n", "d", " ", "i", "n", "s", "t", "a", "l", "l", " ",
      "t", "h", "i", "s", " ", "v", "e", "r", "s", "i", "o", "n", ".", "_",
      "*", "*">>

NotesHeading == <<"#", "#", "#", " ", "N", "o", "t", "e", "s">>

StartsWith(s, pat) == Len(pat) <= Len(s) /\ SubSeq(s, 1, Len(pat)) = pat

NoLineBreak(s, from, to) == \A k \in from..to : s[k] # "\n"

\* replace_all of a literal by ""
RECURSIVE remove_literal(_, _)
remove_literal(s, pat) ==
    IF s = <<>> THEN <<>>
    ELSE IF StartsWith(s, pat)
         THEN remove_literal(SubSeq(s, Len(pat) + 1, Len(s)), pat)
         ELSE <<s[1]>> \o remove_literal(Tail(s), pat)

\* (?m)^#+ replaced by "": bol says that s starts a line or continues a removed run
RECURSIVE remove_headers(_, _)
remove_headers(s, bol) ==
    IF s = <<>> THEN <<>>
    ELSE IF bol /\ s[1] = "#" THEN remove_headers(Tail(s), TRUE)
         ELSE <<s[1]>> \o remove_headers(Tail(s), s[1] = "\n")

\* where the closing "**" of \*\*(.*?)\*\* matched at the start of s begins; 0: no match
BoldClose(s) ==
    IF StartsWith(s, <<"*", "*">>)
    THEN LET close == {j \in 3..(Len(s) - 1) :
                          s[j] = "*" /\ s[j + 1] = "*" /\ NoLineBreak(s, 3, j - 1)}
         IN IF close = {} THEN 0 ELSE Min(close)
    ELSE 0

RECURSIVE unwrap_bold(_)
unwrap_bold(s) ==
    IF s = <<>> THEN <<>>
    ELSE LET j == BoldClose(s) IN
         IF j > 0 THEN SubSeq(s, 3, j - 1) \o unwrap_bold(SubSeq(s, j + 2, Len(s)))
         ELSE <<s[1]>> \o unwrap_bold(Tail(s))

\* where the closing "_" of _(.*?)_ matched at the start of s is; 0: no match
ItalicClose(s) ==
    IF StartsWith(s, <<"_">>)
    THEN LET close == {j \in 2..Len(s) : s[j] = "_" /\ NoLineBreak(s, 2, j - 1)}
         IN IF close = {} THEN 0 ELSE Min(close)
    ELSE 0

RECURSIVE unwrap_italic(_)
unwrap_italic(s) ==
    IF s = <<>> THEN <<>>
    ELSE LET j == ItalicClose(s) IN
         IF j > 0 THEN SubSeq(s, 2, j - 1) \o unwrap_italic(SubSeq(s, j + 1, Len(s)))
         ELSE <<s[1]>> \o unwrap_italic(Tail(s))

\* the ")" that ends the url part opened at s[j + 1] = "(" ; 0: none on that line
LinkEnd(s, j) ==
    LET ends == {k \in (j + 2)..Len(s) : s[k] = ")" /\ NoLineBreak(s, j + 2, k - 1)}
    IN IF ends = {} THEN 0 ELSE Min(ends)

\* where the "]" of \[(.*?)\]\(.*?\) matched at the start of s is; 0: no match
LinkClose(s) ==
    IF StartsWith(s, <<"[">>)
    THEN LET close == {j \in 2..(Len(s) - 1) :
                          /\ s[j] = "]" /\ s[j + 1] = "("
                          /\ NoLineBreak(s, 2, j - 1)
                          /\ LinkEnd(s, j) > 0}
         IN IF close = {} THEN 0 ELSE Min(close)
    ELSE 0

RECURSIVE rewrite_links(_)
rewrite_links(s) ==
    IF s = <<>> THEN <<>>
    ELSE LET j == LinkClose(s) IN
         IF j > 0
         THEN SubSeq(s, 2, j - 1) \o rewrite_links(SubSeq(s, LinkEnd(s, j) + 1, Len(s)))
         ELSE <<s[1]>> \o rewrite_links(Tail(s))

clean_markdown(markdown) ==
    LET no_specific_text == remove_literal(markdown, SpecificText)
        no_notes == remove_literal(no_specific_text, NotesHeading)
        no_headers == remove_headers(no_notes, TRUE)
        no_bold == unwrap_bold(no_headers)
        no_italic == unwrap_italic(no_bold)
    IN rewrite_links(no_italic)

(***************************************************************************)
(* Data types (lib.rs 8-38) and what the collaborators hold.               *)
(***************************************************************************)
\* a URL text: Url::parse rejects a text without a scheme
UrlText(scheme, rest) == [scheme |-> scheme, rest |-> rest]

EmptyUrl == UrlText("", "")

\* Url::parse
Url_parse(u) == [ok |-> u.scheme # "", url |-> u]

GitHubAsset(name, url, count) ==
    [name |-> name, browser_download_url |-> url, download_count |-> count]

GitHubRelease(tag, published, body, assets) ==
    [tag_name |-> tag, published_at |-> published, body |-> body, assets |-> assets]

TotalDownloads(total, updated) ==
    [kind |-> "TotalDownloads", total_downloads |-> total, updated_at |-> updated]

RecentRelease(version, pub_date, url, signature, notes, releases, updated) ==
    [kind |-> "RecentRelease", version |-> version, pub_date |-> pub_date,
     url |-> url, signature |-> signature, notes |-> notes,
     releases |-> releases, updated_at |-> updated]

\* #[derive(Default)]
TotalDownloadsDefault == TotalDownloads(0, EmptyString)

RecentReleaseDefault ==
    RecentRelease(<<>>, EmptyString, EmptyUrl, "", <<>>, <<>>, EmptyString)

\* the text the signature host serves at a URL
SignatureBody(url) == url.rest

(***************************************************************************)
(* The KV namespace.  A key holds nothing or the JSON of one record.       *)
(***************************************************************************)
Keys ==
    {"recent_release", "recent_releases", "recent_download_count",
     "recent_total_download", "recent_total_downloads"}

Absent == [kind |-> "absent"]

\* kv.get(key).json::<T>(): Ok(None) for a missing key, Err when the stored JSON
\* lacks a field of T (a TotalDownloads has no version, a RecentRelease no
\* total_downloads), else Ok(Some(value))
KvGetJson(st, key, type) ==
    CASE st[key].kind = "absent" -> [ok |-> TRUE, some |-> FALSE, val |-> Absent]
      [] st[key].kind = type -> [ok |-> TRUE, some |-> TRUE, val |-> st[key]]
      [] OTHER -> [ok |-> FALSE, some |-> FALSE, val |-> Absent]

\* a put that adds a total to the total already stored instead of replacing it
KvPut_accumulate(st, kvOk, putOk, key, value) ==
    IF kvOk /\ putOk
    THEN [st EXCEPT ![key] =
             IF st[key].kind = "TotalDownloads" /\ value.kind = "TotalDownloads"
             THEN [value EXCEPT !.total_downloads = @ + st[key].total_downloads]
             ELSE value]
    ELSE st

\* kv.put(key, value) and execute(): errors are dropped, the value is then not stored
KvPut(st, kvOk, putOk, key, value) ==
    IF kvOk /\ putOk THEN [st EXCEPT ![key] = value] ELSE st


(***************************************************************************)
(* ReleaseSelector and DownloadAggregator, computed as the iterators do.   *)
(* A result is an index into the list, 0 for None.                         *)
(***************************************************************************)
\* find_new_release comparing the versions the tags denote instead of the tags
RECURSIVE find_new_release_by_version(_, _, _)
find_new_release_by_version(releases, current_version, i) ==
    IF i > Len(releases) THEN 0
    ELSE IF TagVersion(releases[i].tag_name) # TagVersion(current_version) THEN i
         ELSE find_new_release_by_version(releases, current_version, i + 1)

\* releases.iter().find(|release| release.tag_name != current_version), from index i on
RECURSIVE find_new_release(_, _, _)
find_new_release(releases, current_version, i) ==
    IF i > Len(releases) THEN 0
    ELSE IF releases[i].tag_name # current_version THEN i
         ELSE find_new_release(releases, current_version, i + 1)

\* assets.iter().find(|asset| asset.name.ends_with(suffix)), from index i on
RECURSIVE find_asset(_, _, _)
find_asset(assets, suffix, i) ==
    IF i > Len(assets) THEN 0
    ELSE IF ends_with(assets[i].name, suffix) THEN i
         ELSE find_asset(assets, suffix, i + 1)

\* max_by_step keeping the element held so far unless the next one is greater
max_by_step_keep_first(releases, best, i) ==
    IF VersionCmp(TagVersion(releases[best].tag_name),
                  TagVersion(releases[i].tag_name)) = "less"
    THEN i ELSE best

\* one step of Iterator::max_by: the element held so far is kept only when it
\* compares Greater than the next one
max_by_step(releases, best, i) ==
    IF VersionCmp(TagVersion(releases[best].tag_name),
                  TagVersion(releases[i].tag_name)) = "greater"
    THEN best ELSE i

RECURSIVE max_by_fold(_, _, _)
max_by_fold(releases, best, i) ==
    IF i > Len(releases) THEN best
    ELSE max_by_fold(releases, max_by_step(releases, best, i), i + 1)

\* releases.iter().max_by(|a, b| version_a.cmp(&version_b))
latest_by_semver(releases) ==
    IF releases = <<>> THEN 0 ELSE max_by_fold(releases, 1, 2)

RECURSIVE sum_assets(_)
sum_assets(assets) ==
    IF assets = <<>> THEN 0 ELSE Head(assets).download_count + sum_assets(Tail(assets))

\* releases.iter().flat_map(|release| &release.assets).map(|asset| asset.download_count).sum()
RECURSIVE total_downloads(_)
total_downloads(releases) ==
    IF releases = <<>> THEN 0
    ELSE sum_assets(Head(releases).assets) + total_downloads(Tail(releases))

\* tag.chars().filter(|c| c.is_digit(10) || *c == '.').collect()
version_string(tag) == SelectSeq(tag, LAMBDA c : c \in Digits \/ c = ".")

(***************************************************************************)
(* UpdateResolver: parse_releases.  sig is how the signature fetch ends:   *)
(* "ok", "send_err" or "text_err".                                         *)
(***************************************************************************)
ResolveErr(msg) == [ok |-> FALSE, err |-> msg, val |-> RecentReleaseDefault]

ResolveOk(val) == [ok |-> TRUE, err |-> "", val |-> val]

parse_releases(releases, target, arch, current_version, t, sig) ==
    LET n == find_new_release(releases.releases, current_version, 1) IN
    IF n = 0 THEN ResolveErr("No new release found")
    ELSE
    LET latest_release == releases.releases[n]
        ext == get_update_extension(target, arch)
        file_extension == ext[1]
        sig_file_extension == ext[2]
    IN
    IF file_extension = <<>> \/ sig_file_extension = <<>> THEN ResolveErr("Invalid target")
    ELSE
    LET a == find_asset(latest_release.assets, file_extension, 1) IN
    IF a = 0 THEN ResolveErr("No update asset found")
    ELSE
    LET pub_date == parse_from_rfc3339(latest_release.published_at) IN
    IF ~pub_date.ok THEN ResolveErr("Failed to parse published date")
    ELSE
    LET g == find_asset(latest_release.assets, sig_file_extension, 1) IN
    IF g = 0 THEN ResolveErr("No signature asset found")
    ELSE IF sig = "send_err" THEN ResolveErr("Failed to fetch signature")
    ELSE IF sig = "text_err" THEN ResolveErr("Failed to parse signature")
    ELSE ResolveOk(RecentRelease(
             version_string(latest_release.tag_name),
             to_rfc3339(pub_date.ts),
             latest_release.assets[a].browser_download_url,
             SignatureBody(latest_release.assets[g].browser_download_url),
             clean_markdown(latest_release.body),
             releases.releases,
             to_rfc3339(t)))


(***************************************************************************)
(* Requests and what a handler run leaves behind.                          *)
(*   req.target, req.arch, req.current_version: route parameters           *)
(*   req.kv    whether ctx.kv(...) gives the namespace                     *)
(*   req.put   whether the 1st, 2nd, 3rd kv put of the request is stored   *)
(*   req.fetch how the release-list fetch ends: "ok", "send_err",          *)
(*             "json_err"                                                  *)
(*   req.sig   how the signature fetch ends                                *)
(* A run ends with a response, or panics (an unwrap of None or Err, an     *)
(* index past the end): the request is aborted, no response is built.      *)
(* An Err returned with "?" is answered by the runtime with status 500.    *)
(***************************************************************************)
Param(v) == [present |-> TRUE, val |-> v]

MissingParam == [present |-> FALSE, val |-> <<>>]

NoBody == [kind |-> "none"]

\* json!({version, pub_date, url, signature, notes})
ReleaseInfo(r) ==
    [kind |-> "ReleaseInfo", version |-> r.version, pub_date |-> r.pub_date,
     url |-> r.url, signature |-> r.signature, notes |-> r.notes]

Ran(outcome, status, msg, body, location, path, fetched, st) ==
    [outcome |-> outcome, status |-> status, msg |-> msg, body |-> body,
     location |-> location, path |-> path, fetched |-> fetched, store |-> st]

Panicked(path, fetched, st) == Ran("panic", 0, "", NoBody, EmptyUrl, path, fetched, st)

\* Response::error(msg, status), and Err(msg) answered with 500
ErrorResponse(msg, status, path, fetched, st) ==
    Ran("response", status, msg, NoBody, EmptyUrl, path, fetched, st)

\* Response::from_json
JsonResponse(body, path, fetched, st) ==
    Ran("response", 200, "", body, EmptyUrl, path, fetched, st)

\* Response::redirect
RedirectResponse(url, path, fetched, st) ==
    Ran("response", 302, "", NoBody, url, path, fetched, st)

\* updated_at.timestamp() + 300 > chrono::Utc::now().timestamp(), with the
\* fallback of an unparsable text to the current time
GateTime(text, t) ==
    LET parsed == parse_from_rfc3339(text) IN IF parsed.ok THEN parsed.ts ELSE t

\* the comparison turned round: an entry counts as fresh once its window is over
IsFreshAt_inverted(updated_at, t) == updated_at + Window < t

IsFreshAt(updated_at, t) == updated_at + Window > t

(***************************************************************************)
(* get_total_downloads (lib.rs 53-100)                                     *)
(***************************************************************************)
get_total_downloads(st, req, t, up) ==
    LET got == KvGetJson(st, "recent_download_count", "TotalDownloads") IN
    IF req.kv /\ ~got.ok THEN Panicked("none", FALSE, st)
    ELSE
    LET some == req.kv /\ got.some
        updated_at == IF some THEN GateTime(got.val.updated_at, t) ELSE t
    IN
    IF IsFreshAt(updated_at, t) /\ some THEN JsonResponse(got.val, "cache", FALSE, st)
    ELSE IF req.fetch = "send_err"
    THEN ErrorResponse("Failed to fetch releases", 500, "refresh", TRUE, st)
    ELSE IF req.fetch = "json_err"
    THEN ErrorResponse("Failed to parse releases", 500, "refresh", TRUE, st)
    ELSE IF up = <<>> THEN Panicked("refresh", TRUE, st)
    ELSE
    LET new_downloads == TotalDownloads(total_downloads(up), up[1].published_at) IN
    JsonResponse(new_downloads, "refresh", TRUE,
                 KvPut(st, req.kv, req.put[1], "recent_download_count", new_downloads))

(***************************************************************************)
(* get_release (lib.rs 103-194)                                            *)
(***************************************************************************)
get_release(st, req, t, up) ==
    IF ~req.target.present THEN ErrorResponse("Missing target", 400, "none", FALSE, st)
    ELSE IF ~req.arch.present THEN ErrorResponse("Missing arch", 400, "none", FALSE, st)
    ELSE IF ~req.current_version.present
    THEN ErrorResponse("Missing current_version", 400, "none", FALSE, st)
    ELSE
    LET got == KvGetJson(st, "recent_release", "RecentRelease") IN
    IF req.kv /\ ~(got.ok /\ got.some) THEN Panicked("none", FALSE, st)
    ELSE
    LET old_release == IF req.kv THEN got.val ELSE RecentReleaseDefault
        updated_at == GateTime(old_release.updated_at, t)
    IN
    IF IsFreshAt(updated_at, t)
    THEN LET r == parse_releases(old_release, req.target.val, req.arch.val,
                                 req.current_version.val, t, req.sig)
         IN IF r.ok THEN JsonResponse(ReleaseInfo(r.val), "cache", FALSE, st)
            ELSE ErrorResponse(r.err, 500, "cache", FALSE, st)
    ELSE IF req.fetch = "send_err"
    THEN ErrorResponse("Failed to fetch releases", 500, "refresh", TRUE, st)
    ELSE IF req.fetch = "json_err"
    THEN ErrorResponse("Failed to parse releases", 500, "refresh", TRUE, st)
    ELSE
    LET r == parse_releases([old_release EXCEPT !.releases = up], req.target.val,
                            req.arch.val, req.current_version.val, t, req.sig)
    IN IF r.ok
       THEN JsonResponse(ReleaseInfo(r.val), "refresh", TRUE,
                         KvPut(st, req.kv, req.put[1], "recent_download_count", r.val))
       ELSE ErrorResponse(r.err, 500, "refresh", TRUE, st)

(***************************************************************************)
(* get_download (lib.rs 259-401)                                           *)
(***************************************************************************)
ZeroVersion == <<"0", ".", "0", ".", "0">>

\* lib.rs 294-328: the redirect served from the cached snapshot
download_from_cache(st, req, old_release, old_downloads, file_extension) ==
    LET l == latest_by_semver(old_release.releases) IN
    IF l = 0 THEN ErrorResponse("No new release found", 404, "cache", FALSE, st)
    ELSE
    LET a == find_asset(old_release.releases[l].assets, file_extension, 1) IN
    IF a = 0 THEN ErrorResponse("No asset found for target", 404, "cache", FALSE, st)
    ELSE
    LET download_url == Url_parse(old_release.releases[l].assets[a].browser_download_url)
        published == parse_from_rfc3339(old_release.releases[1].published_at)
    IN
    IF ~download_url.ok THEN ErrorResponse("Invalid URL", 400, "cache", FALSE, st)
    ELSE IF ~published.ok
    THEN ErrorResponse("Failed to parse published date", 500, "cache", FALSE, st)
    ELSE
    LET new_downloads == TotalDownloads(old_downloads.total_downloads + 1,
                                        to_rfc3339(published.ts))
    IN RedirectResponse(download_url.url, "cache", FALSE,
                        KvPut(st, req.kv, req.put[1], "recent_download_count", new_downloads))

\* lib.rs 341-399: the redirect after a fetch of the release list
download_after_fetch(st, req, t, releases, old_release, file_extension) ==
    LET l == latest_by_semver(releases) IN
    IF l = 0 THEN ErrorResponse("No new release found", 404, "refresh", TRUE, st)
    ELSE
    LET a == find_asset(releases[l].assets, file_extension, 1) IN
    IF a = 0 THEN ErrorResponse("No asset found for target", 404, "refresh", TRUE, st)
    ELSE
    LET download_url == Url_parse(releases[l].assets[a].browser_download_url) IN
    IF ~download_url.ok THEN ErrorResponse("Invalid URL", 400, "refresh", TRUE, st)
    ELSE
    LET r == parse_releases(old_release, req.target.val, req.arch.val, ZeroVersion,
                            t, req.sig)
    IN
    IF ~r.ok THEN ErrorResponse(r.err, 500, "refresh", TRUE, st)
    ELSE
    LET new_release == r.val
        st1 == KvPut(st, req.kv, req.put[1], "recent_releases", new_release)
        published == parse_from_rfc3339(new_release.releases[1].published_at)
    IN
    IF ~published.ok
    THEN ErrorResponse("Failed to parse published date", 500, "refresh", TRUE, st1)
    ELSE
    LET new_downloads == TotalDownloads(total_downloads(new_release.releases) + 1,
                                        to_rfc3339(published.ts))
        st2 == KvPut(st1, req.kv, req.put[2], "recent_total_downloads", new_downloads)
        st3 == KvPut(st2, req.kv, req.put[3], "recent_releases", new_release)
    IN RedirectResponse(download_url.url, "refresh", TRUE, st3)

get_download(st, req, t, up) ==
    IF ~req.target.present THEN ErrorResponse("Missing target", 400, "none", FALSE, st)
    ELSE IF ~req.arch.present THEN ErrorResponse("Missing arch", 400, "none", FALSE, st)
    ELSE
    LET gotR == KvGetJson(st, "recent_releases", "RecentRelease")
        gotD == KvGetJson(st, "recent_total_download", "TotalDownloads")
    IN
    IF req.kv /\ ~(gotR.ok /\ gotR.some) THEN Panicked("none", FALSE, st)
    ELSE IF req.kv /\ ~(gotD.ok /\ gotD.some) THEN Panicked("none", FALSE, st)
    ELSE
    LET old_release == IF req.kv THEN gotR.val ELSE RecentReleaseDefault
        old_downloads == IF req.kv THEN gotD.val ELSE TotalDownloadsDefault
        updated_at == GateTime(old_downloads.updated_at, t)
        file_extension == get_download_extension(req.target.val, req.arch.val)
    IN
    IF IsFreshAt(updated_at, t)
    THEN download_from_cache(st, req, old_release, old_downloads, file_extension)
    ELSE IF req.fetch = "send_err"
    THEN ErrorResponse("Failed to fetch releases", 500, "refresh", TRUE, st)
    ELSE IF req.fetch = "json_err"
    THEN ErrorResponse("Failed to parse releases", 500, "refresh", TRUE, st)
    ELSE download_after_fetch(st, req, t, up, old_release, file_extension)


(***************************************************************************)
(* The values the model runs over.                                         *)
(***************************************************************************)
Tag_v1_0_0 == <<"v", "1", ".", "0", ".", "0">>
Tag_v1_2_0 == <<"v", "1", ".", "2", ".", "0">>
Tag_v0_9_0 == <<"v", "0", ".", "9", ".", "0">>
Tag_1_0_0 == <<"1", ".", "0", ".", "0">>
Tag_malformed == <<"n", "o", "p", "e">>

Target_Windows == <<"W", "i", "n", "d", "o", "w", "s">>
Target_unknown == <<"b", "s", "d">>
Arch_x64 == <<"x", "6", "4">>

Body_notes == <<"#", "#", " ", "*", "*", "H", "i", "*", "*">>

InstallerAsset(label, count) ==
    GitHubAsset(<<"a">> \o S_setup_exe, UrlText("https", label \o "/a-setup.exe"), count)

UpdateAsset(label, count) ==
    GitHubAsset(<<"a">> \o S_nsis_zip, UrlText("https", label \o "/a.nsis.zip"), count)

SignatureAsset(label, count) ==
    GitHubAsset(<<"a">> \o S_nsis_zip_sig, UrlText("https", label \o "/a.nsis.zip.sig"), count)

\* a release with the installer, the update artifact and its signature
FullRelease(tag, label, published) ==
    GitHubRelease(tag, published, Body_notes,
                  <<InstallerAsset(label, 3), UpdateAsset(label, 4), SignatureAsset(label, 0)>>)

\* a release with the installer only
InstallerRelease(tag, label, published) ==
    GitHubRelease(tag, published, Body_notes, <<InstallerAsset(label, 5)>>)

List_ascending ==
    <<FullRelease(Tag_v1_0_0, "r100", Rfc3339(10, "Z")),
      FullRelease(Tag_v1_2_0, "r120", Rfc3339(20, "Z"))>>

List_installer_only == <<InstallerRelease(Tag_v1_0_0, "i100", Rfc3339(10, "Z"))>>

List_newest_first ==
    <<FullRelease(Tag_v1_2_0, "r120", Rfc3339(20, "Z")),
      FullRelease(Tag_v1_0_0, "r100", Rfc3339(10, "Z"))>>

List_undated == <<FullRelease(Tag_v1_2_0, "u120", NotADate("yesterday"))>>

\* a first release tagged 0.0.0 without a publish date, then a full one
List_zero_first ==
    <<GitHubRelease(ZeroVersion, NotADate("draft"), Body_notes, <<InstallerAsset("z000", 1)>>),
      FullRelease(Tag_v1_2_0, "r120", Rfc3339(20, "Z"))>>

\* what the release source may answer with
UpstreamLists == {<<>>, List_newest_first, List_undated, List_installer_only}

\* what the namespace may hold when the worker starts serving
SeedLists == {List_ascending, List_installer_only, List_undated, List_zero_first}

NowStart == 2 * Window

\* the instants the clock shows: around the start and around each window's end
Instants ==
    {NowStart} \cup
    {NowStart + k * Window + d : k \in 1..MaxWindows, d \in {-1, 0, 1}}

SeedStamps == {to_rfc3339(NowStart), NotADate("unknown")}

EmptyStore == [k \in Keys |-> Absent]

SeededStore(list, snapshot_at, total_at) ==
    [k \in Keys |->
        CASE k \in {"recent_release", "recent_releases"} ->
                 RecentRelease(<<>>, EmptyString, EmptyUrl, "", <<>>, list, snapshot_at)
          [] k = "recent_total_download" ->
                 TotalDownloads(total_downloads(list), total_at)
          [] OTHER -> Absent]

InitialStores ==
    {EmptyStore} \cup
    {SeededStore(l, a, b) : l \in SeedLists, a \in SeedStamps, b \in SeedStamps}

\* how the collaborators behave during one request
Env(kv, put, fetch, list, sig) ==
    [kv |-> kv, put |-> put, fetch |-> fetch, list |-> list, sig |-> sig]

AllStored == <<TRUE, TRUE, TRUE>>
NoneStored == <<FALSE, FALSE, FALSE>>
FirstStored == <<TRUE, FALSE, FALSE>>

HappyEnv == Env(TRUE, AllStored, "ok", List_newest_first, "ok")

\* the namespace answers and stores; the release source answers with any list
\* or fails
FetchEnvs ==
    {Env(TRUE, AllStored, "ok", l, "ok") : l \in UpstreamLists}
    \cup {Env(TRUE, AllStored, f, <<>>, "ok") : f \in {"send_err", "json_err"}}

\* one collaborator misbehaves: puts are dropped (all, or all but the first),
\* the signature fetch fails
FaultEnvs ==
    {Env(TRUE, p, "ok", List_newest_first, "ok") : p \in {NoneStored, FirstStored}}
    \cup {Env(TRUE, AllStored, "ok", List_newest_first, g) : g \in {"send_err", "text_err"}}

\* the namespace binding is missing
NoKvEnvs == {Env(FALSE, AllStored, "ok", l, "ok") : l \in UpstreamLists}

Envs == FetchEnvs \cup FaultEnvs \cup NoKvEnvs

Request(target, arch, current_version, env) ==
    [target |-> target, arch |-> arch, current_version |-> current_version,
     kv |-> env.kv, put |-> env.put, fetch |-> env.fetch, sig |-> env.sig]

Targets == {Target_Windows, T_linux, Target_unknown}

ReleaseRequests ==
    {<<Request(Param(t), Param(Arch_x64), Param(c), e), e.list>> :
        t \in Targets, c \in {Tag_v1_0_0, Tag_v1_2_0}, e \in Envs}
    \cup {<<Request(MissingParam, Param(Arch_x64), Param(Tag_v1_0_0), HappyEnv), <<>> >>,
          <<Request(Param(Target_Windows), MissingParam, Param(Tag_v1_0_0), HappyEnv), <<>> >>,
          <<Request(Param(Target_Windows), Param(Arch_x64), MissingParam, HappyEnv), <<>> >>}

DownloadRequests ==
    {<<Request(Param(t), Param(Arch_x64), MissingParam, e), e.list>> :
        t \in Targets, e \in Envs}
    \cup {<<Request(MissingParam, Param(Arch_x64), MissingParam, HappyEnv), <<>> >>,
          <<Request(Param(Target_Windows), MissingParam, MissingParam, HappyEnv), <<>> >>}

TotalRequests ==
    {<<Request(MissingParam, MissingParam, MissingParam, e), e.list>> : e \in Envs}

(***************************************************************************)
(* The worker as a state machine: one request at a time.  A route's action *)
(* runs its handler on the namespace as it is; Respond hands the response  *)
(* back, after which the next request is taken; the clock moves between    *)
(* requests.                                                               *)
(***************************************************************************)
NoSelection == [rule |-> "none", tags |-> <<>>, current |-> <<>>, result |-> 0, error |-> ""]

\* parse_releases is not being run on its own
NoResolution ==
    [stage |-> "none", releases |-> <<>>, target |-> <<>>, current_version |-> <<>>,
     sig |-> "ok", out |-> ResolveErr("")]

\* no target is being looked up
NoMatch ==
    [target |-> <<>>, arch |-> <<>>, installDone |-> FALSE, install |-> <<>>,
     updateDone |-> FALSE, update |-> << <<>>, <<>> >>]

\* no text is being cleaned
NoText == [stage |-> "none", raw |-> <<>>, once |-> <<>>, twice |-> <<>>]

\* no request is being followed step by step
NoConcurrency == [handler |-> "none", list |-> <<>>, start |-> EmptyStore, procs |-> <<>>]

\* what is kept of a request: its parameters, whether the namespace was there and
\* stored the puts, how the release-list fetch ended and with which list (when one
\* was made), the namespace before the request, the time, and the response
Served(handler, req, list, before, t, r) ==
    [handler |-> handler, target |-> req.target, arch |-> req.arch,
     current_version |-> req.current_version, kv |-> req.kv, put |-> req.put,
     fetch |-> IF r.fetched THEN req.fetch ELSE "none",
     list |-> IF r.fetched /\ req.fetch = "ok" THEN list ELSE <<>>,
     before |-> before, at |-> t,
     outcome |-> r.outcome, status |-> r.status, msg |-> r.msg, body |-> r.body,
     location |-> r.location, path |-> r.path, fetched |-> r.fetched]

\* before the first request
NothingServed ==
    [Served("none", Request(MissingParam, MissingParam, MissingParam, HappyEnv), <<>>,
            EmptyStore, 0, Panicked("none", FALSE, EmptyStore))
     EXCEPT !.outcome = "none"]

Init ==
    /\ store \in InitialStores
    /\ now = NowStart
    /\ last = NothingServed
    /\ sel = NoSelection
    /\ conc = NoConcurrency
    /\ san = NoText
    /\ mat = NoMatch
    /\ res = NoResolution

TotalDownloadsRequest ==
    /\ last.handler = "none"
    /\ \E q \in TotalRequests :
           LET r == get_total_downloads(store, q[1], now, q[2]) IN
           /\ store' = r.store
           /\ last' = Served("get_total_downloads", q[1], q[2], store, now, r)
           /\ UNCHANGED <<now, sel, conc, san, mat, res>>

ReleaseRequest ==
    /\ last.handler = "none"
    /\ \E q \in ReleaseRequests :
           LET r == get_release(store, q[1], now, q[2]) IN
           /\ store' = r.store
           /\ last' = Served("get_release", q[1], q[2], store, now, r)
           /\ UNCHANGED <<now, sel, conc, san, mat, res>>

DownloadRequest ==
    /\ last.handler = "none"
    /\ \E q \in DownloadRequests :
           LET r == get_download(store, q[1], now, q[2]) IN
           /\ store' = r.store
           /\ last' = Served("get_download", q[1], q[2], store, now, r)
           /\ UNCHANGED <<now, sel, conc, san, mat, res>>

\* main returns the handler's Response (lib.rs 49-50)
Respond ==
    /\ last.handler # "none"
    /\ last' = NothingServed
    /\ UNCHANGED <<store, now, sel, conc, san, mat, res>>

Tick ==
    /\ last.handler = "none"
    /\ \E t \in Instants : t > now /\ now' = t
    /\ UNCHANGED <<store, last, sel, conc, san, mat, res>>

Next == TotalDownloadsRequest \/ ReleaseRequest \/ DownloadRequest \/ Respond \/ Tick

Spec == Init /\ [][Next]_vars


(***************************************************************************)
(* The selection rules on their own: the tag list and the current version  *)
(* are drawn at the start, each rule is run once on them.                  *)
(***************************************************************************)
TagSet == {Tag_v1_0_0, Tag_v1_2_0, Tag_v0_9_0, Tag_1_0_0, Tag_malformed}

RECURSIVE TagLists(_)
TagLists(n) ==
    IF n = 0 THEN {<<>>}
    ELSE LET shorter == TagLists(n - 1) IN
         shorter \cup {Append(l, t) : l \in {x \in shorter : Len(x) = n - 1}, t \in TagSet}

\* releases carrying the tags, each with the update assets of a windows build
ReleasesOf(tags) ==
    [i \in 1..Len(tags) |-> FullRelease(tags[i], "r", Rfc3339(i, "Z"))]

SelectorInit ==
    /\ store = EmptyStore
    /\ now = NowStart
    /\ last = NothingServed
    /\ sel \in {[rule |-> "none", tags |-> l, current |-> c, result |-> 0, error |-> ""] :
                  l \in TagLists(MaxLen), c \in {Tag_v1_0_0, Tag_v1_2_0, Tag_malformed}}
    /\ conc = NoConcurrency
    /\ san = NoText
    /\ mat = NoMatch
    /\ res = NoResolution

\* next-version as parse_releases runs it (lib.rs 197-200)
RunNextVersion ==
    /\ sel.rule = "none"
    /\ sel' = [sel EXCEPT
                 !.rule = "next-version",
                 !.result = find_new_release(ReleasesOf(sel.tags), sel.current, 1),
                 !.error = parse_releases(
                               [RecentReleaseDefault EXCEPT !.releases = ReleasesOf(sel.tags)],
                               Target_Windows, Arch_x64, sel.current, now, "ok").err]
    /\ UNCHANGED <<store, now, last, conc, san, mat, res>>

\* latest-by-semver as get_download runs it (lib.rs 294-301, 346-353)
RunLatestBySemver ==
    /\ sel.rule = "none"
    /\ sel' = [sel EXCEPT
                 !.rule = "latest-by-semver",
                 !.result = latest_by_semver(ReleasesOf(sel.tags))]
    /\ UNCHANGED <<store, now, last, conc, san, mat, res>>

SelectorNext == RunNextVersion \/ RunLatestBySemver

SelectorSpec == SelectorInit /\ [][SelectorNext]_vars


(***************************************************************************)
(* parse_releases on its own: a release list, a target and the outcome of  *)
(* the signature fetch are drawn at the start, parse_releases is run once. *)
(* The releases differ in what they lack; each carries its place in the    *)
(* list in its URLs, its notes and its publish time.                       *)
(***************************************************************************)
Shapes == {"full", "no_update", "no_signature", "undated", "bare"}

\* the i-th release of a list
ShapedRelease(shape, tag, i) ==
    LET label == "r" \o ToString(i)
        published == IF shape \in {"undated", "bare"} THEN NotADate("soon")
                     ELSE Rfc3339(i, "Z")
        body == <<"#", " ", "*", "*", ToString(i), "*", "*">>
        assets ==
            CASE shape \in {"full", "undated"} ->
                     <<InstallerAsset(label, 3), UpdateAsset(label, 4), SignatureAsset(label, 0)>>
              [] shape = "no_update" -> <<InstallerAsset(label, 3), SignatureAsset(label, 0)>>
              [] shape = "no_signature" -> <<InstallerAsset(label, 3), UpdateAsset(label, 4)>>
              [] OTHER -> <<InstallerAsset(label, 3)>>
    IN GitHubRelease(tag, published, body, assets)

\* the lists of up to n releases, each of any shape and tagged v1.0.0 or v1.2.0
RECURSIVE ShapedLists(_)
ShapedLists(n) ==
    IF n = 0 THEN {<<>>}
    ELSE LET shorter == ShapedLists(n - 1) IN
         shorter \cup {Append(l, ShapedRelease(s, t, n)) :
                          l \in {x \in shorter : Len(x) = n - 1},
                          s \in Shapes, t \in {Tag_v1_0_0, Tag_v1_2_0}}

ResolverInit ==
    /\ store = EmptyStore
    /\ now = NowStart
    /\ last = NothingServed
    /\ sel = NoSelection
    /\ conc = NoConcurrency
    /\ san = NoText
    /\ mat = NoMatch
    /\ res \in {[NoResolution EXCEPT !.stage = "called", !.releases = l, !.target = t,
                                     !.current_version = Tag_v1_0_0, !.sig = g] :
                  l \in ShapedLists(MaxLen),
                  t \in {Target_Windows, Target_unknown},
                  g \in {"ok", "send_err"}}

\* parse_releases(old_release, target, arch, current_version).await (lib.rs 169)
Resolve ==
    /\ res.stage = "called"
    /\ res' = [res EXCEPT
                 !.stage = "returned",
                 !.out = parse_releases(
                             [RecentReleaseDefault EXCEPT !.releases = res.releases],
                             res.target, Arch_x64, res.current_version, now, res.sig)]
    /\ UNCHANGED <<store, now, last, sel, conc, san, mat>>

ResolverNext == Resolve

ResolverSpec == ResolverInit /\ [][ResolverNext]_vars


(***************************************************************************)
(* The suffix tables on their own: a target and an arch are drawn at the   *)
(* start, each table is looked up once.                                    *)
(***************************************************************************)
SupportedTargets == {T_mac, T_macos, T_darwin, T_linux, T_windows}

\* the upper-case letter of a lower-case letter
UpperChar(c) ==
    IF \E i \in 1..26 : LowerCase[i] = c
    THEN UpperCase[CHOOSE i \in 1..26 : LowerCase[i] = c]
    ELSE c

\* every spelling of word
RECURSIVE Spellings(_)
Spellings(word) ==
    IF word = <<>> THEN {<<>>}
    ELSE {<<c>> \o s : c \in {word[1], UpperChar(word[1])}, s \in Spellings(Tail(word))}

\* targets that spell none of the supported ones
OtherTargets ==
    {<<>>, Target_unknown, <<"w", "i", "n">>, <<"o", "s", "x">>,
     T_windows \o <<" ">>, <<" ">> \o T_linux, T_macos \o <<"x">>,
     <<"W", "i", "n", "d", "o", "w", "s", "1", "1">>, <<"d", "a", "r", "v", "i", "n">>}

Archs == {Arch_x64, <<"a", "a", "r", "c", "h", "6", "4">>, <<>>}

MatcherInit ==
    /\ store = EmptyStore
    /\ now = NowStart
    /\ last = NothingServed
    /\ sel = NoSelection
    /\ conc = NoConcurrency
    /\ san = NoText
    /\ mat \in {[NoMatch EXCEPT !.target = t, !.arch = a] :
                  t \in (UNION {Spellings(w) : w \in SupportedTargets}) \cup OtherTargets,
                  a \in Archs}
    /\ res = NoResolution

\* get_download_extension(&target, &arch) (lib.rs 291)
RunInstallSuffix ==
    /\ ~mat.installDone
    /\ mat' = [mat EXCEPT !.installDone = TRUE,
                          !.install = get_download_extension(mat.target, mat.arch)]
    /\ UNCHANGED <<store, now, last, sel, conc, san, res>>

\* get_update_extension(&target, &arch) (lib.rs 202)
RunUpdateSuffixes ==
    /\ ~mat.updateDone
    /\ mat' = [mat EXCEPT !.updateDone = TRUE,
                          !.update = get_update_extension(mat.target, mat.arch)]
    /\ UNCHANGED <<store, now, last, sel, conc, san, res>>

MatcherNext == RunInstallSuffix \/ RunUpdateSuffixes

MatcherSpec == MatcherInit /\ [][MatcherNext]_vars


(***************************************************************************)
(* clean_markdown on its own: a text is drawn at the start, cleaned, and   *)
(* the result is cleaned again.                                            *)
(***************************************************************************)
\* the characters the six patterns look at, a letter and a line break
MarkupChars == {"#", "*", "_", "[", "]", "(", ")", "a", "\n"}

RECURSIVE Texts(_)
Texts(n) ==
    IF n = 0 THEN {<<>>}
    ELSE LET shorter == Texts(n - 1) IN
         shorter \cup {Append(x, c) : x \in {y \in shorter : Len(y) = n - 1}, c \in MarkupChars}

SanitizerInit ==
    /\ store = EmptyStore
    /\ now = NowStart
    /\ last = NothingServed
    /\ sel = NoSelection
    /\ conc = NoConcurrency
    /\ san \in {[NoText EXCEPT !.stage = "raw", !.raw = x] : x \in Texts(MaxText)}
    /\ mat = NoMatch
    /\ res = NoResolution

\* notes: clean_markdown(&notes) (lib.rs 251)
CleanOnce ==
    /\ san.stage = "raw"
    /\ san' = [san EXCEPT !.stage = "once", !.once = clean_markdown(san.raw)]
    /\ UNCHANGED <<store, now, last, sel, conc, mat, res>>

\* the cleaned notes given to clean_markdown again
CleanAgain ==
    /\ san.stage = "once"
    /\ san' = [san EXCEPT !.stage = "twice", !.twice = clean_markdown(san.once)]
    /\ UNCHANGED <<store, now, last, sel, conc, mat, res>>

SanitizerNext == CleanOnce \/ CleanAgain

SanitizerSpec == SanitizerInit /\ [][SanitizerNext]_vars


(***************************************************************************)
(* Requests of one route in flight together.  A handler is suspended at    *)
(* every await: after each kv get, during the fetches, after each kv put.  *)
(* Between two awaits it runs alone.  A request reads its keys into its    *)
(* own view of the namespace, one get at a time; it then passes the gate,  *)
(* fetches and computes on that view; it then stores its puts one at a     *)
(* time.  The other requests' steps fall in between.                       *)
(***************************************************************************)
RunOf(handler, st, req, t, up) ==
    CASE handler = "get_total_downloads" -> get_total_downloads(st, req, t, up)
      [] handler = "get_release" -> get_release(st, req, t, up)
      [] OTHER -> get_download(st, req, t, up)

\* the keys a handler gets, in the order of its kv.get calls
ReadKeys(handler) ==
    CASE handler = "get_total_downloads" -> <<"recent_download_count">>
      [] handler = "get_release" -> <<"recent_release">>
      [] OTHER -> <<"recent_releases", "recent_total_download">>

\* the kv puts of get_total_downloads, in order (lib.rs 93-97)
get_total_downloads_puts(st, req, t, up) ==
    LET r == get_total_downloads(st, req, t, up) IN
    IF r.outcome = "response" /\ r.path = "refresh" /\ r.status = 200
    THEN << <<"recent_download_count", r.body>> >>
    ELSE <<>>

\* the kv puts of get_release, in order (lib.rs 169-175)
get_release_puts(st, req, t, up) ==
    LET r == get_release(st, req, t, up) IN
    IF r.outcome = "response" /\ r.path = "refresh" /\ r.status = 200
    THEN LET release == parse_releases([st["recent_release"] EXCEPT !.releases = up],
                                       req.target.val, req.arch.val,
                                       req.current_version.val, t, req.sig).val
         IN << <<"recent_download_count", release>> >>
    ELSE <<>>

\* the kv puts of get_download, in order (lib.rs 315-326 and 367-397)
get_download_puts(st, req, t, up) ==
    LET r == get_download(st, req, t, up) IN
    IF r.outcome # "response" \/ r.path = "none" THEN <<>>
    ELSE
    LET old_release == st["recent_releases"]
        old_downloads == st["recent_total_download"]
    IN
    IF r.path = "cache"
    THEN IF r.status # 302 THEN <<>>
         ELSE << <<"recent_download_count",
                   TotalDownloads(old_downloads.total_downloads + 1,
                       to_rfc3339(parse_from_rfc3339(
                           old_release.releases[1].published_at).ts))>> >>
    ELSE
    LET p == parse_releases(old_release, req.target.val, req.arch.val, ZeroVersion,
                            t, req.sig)
    IN
    IF r.status = 302
    THEN LET new_release == p.val
             new_downloads ==
                 TotalDownloads(total_downloads(new_release.releases) + 1,
                     to_rfc3339(parse_from_rfc3339(
                         new_release.releases[1].published_at).ts))
         IN << <<"recent_releases", new_release>>,
               <<"recent_total_downloads", new_downloads>>,
               <<"recent_releases", new_release>> >>
    ELSE IF r.status = 500 /\ r.msg = "Failed to parse published date" /\ p.ok
    THEN << <<"recent_releases", p.val>> >>
    ELSE <<>>

\* the puts of a run of the handler that has read st, the namespace being there
PutsOf(handler, st, req, t, up) ==
    IF ~req.kv THEN <<>>
    ELSE CASE handler = "get_total_downloads" -> get_total_downloads_puts(st, req, t, up)
           [] handler = "get_release" -> get_release_puts(st, req, t, up)
           [] OTHER -> get_download_puts(st, req, t, up)

\* a release with the assets of a windows and of a linux build
PortableRelease(tag, label, published) ==
    GitHubRelease(tag, published, Body_notes,
        <<InstallerAsset(label, 3), UpdateAsset(label, 4), SignatureAsset(label, 0),
          GitHubAsset(<<"a">> \o S_AppImage, UrlText("https", label \o "/a.AppImage"), 2),
          GitHubAsset(<<"a">> \o S_AppImage_tar_gz,
                      UrlText("https", label \o "/a.AppImage.tar.gz"), 1),
          GitHubAsset(<<"a">> \o S_AppImage_tar_gz_sig,
                      UrlText("https", label \o "/a.AppImage.tar.gz.sig"), 0)>>)

List_two_platforms == <<PortableRelease(Tag_v1_2_0, "p120", Rfc3339(20, "Z"))>>

\* what the release source answers to every request in flight
ConcLists == {List_newest_first, List_two_platforms}

\* a timestamp a window before the start: stale at every instant of the run
StaleStamp == to_rfc3339(NowStart - Window)

\* the namespace when the requests arrive: every cached entry is stale; the
\* total that get_total_downloads reads is stale or was never stored
ConcStores(handler) ==
    {SeededStore(l, StaleStamp, StaleStamp) : l \in {List_ascending, List_two_platforms}}
    \cup (IF handler = "get_total_downloads"
          THEN {[SeededStore(List_two_platforms, StaleStamp, StaleStamp)
                    EXCEPT !["recent_download_count"] = TotalDownloads(7, StaleStamp)]}
          ELSE {})

ConcRequests(handler) ==
    CASE handler = "get_total_downloads" ->
             {Request(MissingParam, MissingParam, MissingParam, HappyEnv)}
      [] handler = "get_release" ->
             {Request(Param(Target_Windows), Param(Arch_x64), Param(c), HappyEnv) :
                 c \in {Tag_v1_0_0, Tag_v1_2_0}}
             \cup {Request(Param(T_linux), Param(Arch_x64), Param(Tag_v1_0_0), HappyEnv)}
      [] OTHER ->
             {Request(Param(t), Param(Arch_x64), MissingParam, HappyEnv) :
                 t \in {Target_Windows, T_linux}}

Procs == 1..MaxProcs

\* a request that has not arrived
Idle == [pc |-> "idle", req |-> Request(MissingParam, MissingParam, MissingParam, HappyEnv),
         reads |-> <<>>, view |-> EmptyStore, puts |-> <<>>, wrote |-> 0]

ConcInit ==
    /\ now = NowStart
    /\ last = NothingServed
    /\ sel = NoSelection
    /\ san = NoText
    /\ mat = NoMatch
    /\ res = NoResolution
    /\ conc \in UNION {{[handler |-> h, list |-> l, start |-> st,
                           procs |-> [i \in Procs |-> Idle]] :
                              l \in ConcLists, st \in ConcStores(h)} :
                         h \in {"get_total_downloads", "get_release", "get_download"}}
    /\ store = conc.start

\* the router hands the request to the handler (lib.rs 41-51); the requests are
\* numbered in the order of their arrival
Arrive(i) ==
    /\ conc.procs[i].pc = "idle"
    /\ \A j \in Procs : j < i => conc.procs[j].pc # "idle"
    /\ \E req \in ConcRequests(conc.handler) :
           conc' = [conc EXCEPT !.procs[i] =
                       [Idle EXCEPT !.pc = "read", !.req = req,
                                    !.reads = ReadKeys(conc.handler)]]
    /\ UNCHANGED <<store, now, last, sel, san, mat, res>>

\* one kv.get(key).json().await
Read(i) ==
    LET p == conc.procs[i] IN
    /\ p.pc = "read"
    /\ p.reads # <<>>
    /\ conc' = [conc EXCEPT !.procs[i] =
                   [p EXCEPT !.view = [p.view EXCEPT ![Head(p.reads)] = store[Head(p.reads)]],
                             !.reads = Tail(p.reads)]]
    /\ UNCHANGED <<store, now, last, sel, san, mat, res>>

\* the gate, the fetches and the computation up to the first put, on what was read
Compute(i) ==
    /\ conc.procs[i].pc = "read"
    /\ conc.procs[i].reads = <<>>
    /\ \E puts \in {PutsOf(conc.handler, conc.procs[i].view, conc.procs[i].req,
                           now, conc.list)} :
           conc' = [conc EXCEPT !.procs[i].pc = IF puts = <<>> THEN "done" ELSE "put",
                                !.procs[i].puts = puts]
    /\ UNCHANGED <<store, now, last, sel, san, mat, res>>

\* one kv.put(key, value).execute().await
Put(i) ==
    LET p == conc.procs[i] IN
    /\ p.pc = "put"
    /\ store' = KvPut(store, p.req.kv, TRUE, Head(p.puts)[1], Head(p.puts)[2])
    /\ conc' = [conc EXCEPT !.procs[i] =
                   [p EXCEPT !.pc = IF Len(p.puts) = 1 THEN "done" ELSE "put",
                             !.puts = Tail(p.puts),
                             !.wrote = p.wrote + 1]]
    /\ UNCHANGED <<now, last, sel, san, mat, res>>

\* the clock moves on while requests are in flight
ConcTick ==
    /\ now = NowStart
    /\ now' = NowStart + 1
    /\ UNCHANGED <<store, last, sel, conc, san, mat, res>>

ConcNext ==
    \/ \E i \in Procs : Arrive(i)
    \/ \E i \in Procs : Read(i)
    \/ \E i \in Procs : Compute(i)
    \/ \E i \in Procs : Put(i)
    \/ ConcTick

ConcSpec == ConcInit /\ [][ConcNext]_vars


(***************************************************************************)
(* Properties.  Those of the handlers speak of the request served last:   *)
(* the namespace before it (last.before) and after it (store), and its     *)
(* response.  Those of a function run on its own speak of its arguments    *)
(* and its result.                                                         *)
(***************************************************************************)
\* the request got as far as the freshness gate
GateReached == last.path \in {"cache", "refresh"}

\* the key whose record's timestamp the handler compares with the clock
GateKey ==
    CASE last.handler = "get_total_downloads" -> "recent_download_count"
      [] last.handler = "get_release" -> "recent_release"
      [] OTHER -> "recent_total_download"

\* the cached entry the handler had: nothing without the namespace
GateEntry == IF last.kv THEN last.before[GateKey] ELSE Absent

GateEntryFresh ==
    /\ GateEntry.kind # "absent"
    /\ GateEntry.updated_at.valid
    /\ GateEntry.updated_at.secs + Window > last.at

\* C1: in every handler the cached entry is served exactly when its captured_at
\* parses and captured_at + 300 > now; an absent or unparsable captured_at sends
\* the request down the refresh path.
C1_FreshIffWithinWindow == GateReached => (last.path = "cache" <=> GateEntryFresh)

\* C2: without the namespace a version check or a download is not answered from
\* an empty snapshot: the release list is fetched.
C2_NoKvMeansRefresh ==
    (/\ last.handler \in {"get_release", "get_download"}
     /\ ~last.kv
     /\ last.status # 400)
    => (last.path = "refresh" /\ last.fetched)

HoldsSnapshot(st) == \E k \in Keys : st[k].kind = "RecentRelease"

HoldsTotal(st) == \E k \in Keys : st[k].kind = "TotalDownloads"

\* C3: on an empty namespace a version check or a download is not aborted by the
\* missing keys, and once it has fetched the list and answered, the snapshot and
\* the total are in the namespace.
C3_EmptyStoreHandled ==
    (/\ last.handler \in {"get_release", "get_download"}
     /\ last.kv
     /\ last.before = EmptyStore
     /\ last.status # 400)
    => /\ last.outcome # "panic"
       /\ (last.fetch = "ok" /\ last.status \in {200, 302} /\ last.put = AllStored)
              => (HoldsSnapshot(store) /\ HoldsTotal(store))

\* C4: a refresh stores the list it fetched: after a version check that
\* refreshed, a stored snapshot holds the fetched list; after a download that
\* refreshed, the snapshot the download path reads holds the fetched list and the
\* total written with it is the sum over that list (counting the download or not).
C4_RefreshStoresFetchedList ==
    (/\ last.handler \in {"get_release", "get_download"}
     /\ last.path = "refresh"
     /\ last.status \in {200, 302}
     /\ last.kv
     /\ last.put = AllStored)
    => IF last.handler = "get_release"
       THEN \E k \in Keys :
                store[k].kind = "RecentRelease" /\ store[k].releases = last.list
       ELSE /\ store["recent_releases"].kind = "RecentRelease"
            /\ store["recent_releases"].releases = last.list
            /\ store["recent_total_downloads"].kind = "TotalDownloads"
            /\ store["recent_total_downloads"].total_downloads
                  \in {total_downloads(last.list), total_downloads(last.list) + 1}

\* C5: a download answered from the fresh cache adds exactly one to the total
\* that the next download and the total-downloads route read, and dates it with
\* the publish time of the release it redirected to.
C5_DownloadCountsOne ==
    (/\ last.handler = "get_download"
     /\ last.path = "cache"
     /\ last.status = 302
     /\ last.kv
     /\ last.put = AllStored)
    => LET was == last.before["recent_total_download"].total_downloads
           snapshot == last.before["recent_releases"].releases
           chosen == snapshot[latest_by_semver(snapshot)]
           next_download == store["recent_total_download"]
           totals_route == store["recent_download_count"]
       IN /\ next_download.total_downloads = was + 1
          /\ totals_route.kind = "TotalDownloads"
          /\ totals_route.total_downloads = was + 1
          /\ totals_route.updated_at.valid
          /\ totals_route.updated_at.secs = chosen.published_at.secs


\* the versions of the tags the selection rules were run on
SelVersion(i) == TagVersion(sel.tags[i])

\* C6 as amended: latest-by-semver fails only on the empty list, and otherwise
\* returns a release whose version (leading "v"s stripped, an unparsable tag
\* counted as 0.0.0) no other release exceeds; among several releases of that
\* greatest version it returns the one that comes last in the list.
C6_LatestIsLastMaximal ==
    sel.rule = "latest-by-semver" =>
        /\ (sel.result = 0 <=> sel.tags = <<>>)
        /\ sel.result # 0 =>
              /\ sel.result \in 1..Len(sel.tags)
              /\ \A j \in 1..Len(sel.tags) :
                    VersionCmp(SelVersion(j), SelVersion(sel.result)) # "greater"
              /\ \A j \in (sel.result + 1)..Len(sel.tags) :
                    VersionCmp(SelVersion(j), SelVersion(sel.result)) = "less"

\* C6 as stated: among several releases of the greatest version the one that
\* comes first in the list is returned.
C6_LatestIsFirstMaximal ==
    sel.rule = "latest-by-semver" =>
        /\ (sel.result = 0 <=> sel.tags = <<>>)
        /\ sel.result # 0 =>
              /\ sel.result \in 1..Len(sel.tags)
              /\ \A j \in 1..Len(sel.tags) :
                    VersionCmp(SelVersion(j), SelVersion(sel.result)) # "greater"
              /\ \A j \in 1..(sel.result - 1) :
                    VersionCmp(SelVersion(j), SelVersion(sel.result)) = "less"

\* latest-by-semver has run on a list in which the greatest version occurs twice,
\* once written with an unparsable tag's 0.0.0 below it, and returned an entry
C6_Witness ==
    /\ sel.rule = "latest-by-semver"
    /\ Len(sel.tags) = 3
    /\ sel.result # 0
    /\ \E i, j \in 1..3 :
          i < j /\ sel.tags[i] # sel.tags[j]
          /\ VersionCmp(SelVersion(i), SelVersion(sel.result)) = "equal"
          /\ VersionCmp(SelVersion(j), SelVersion(sel.result)) = "equal"
    /\ \E k \in 1..3 : sel.tags[k] = Tag_malformed

\* the install or update suffix table does not know the target
UnknownTarget(target) ==
    /\ get_download_extension(target, <<>>) = <<>>
    /\ get_update_extension(target, <<>>)[1] = <<>>

\* C7: a version check or a download for an unrecognized target is rejected: it
\* is never answered with a release or a redirect, and no asset URL is given.
C7_UnknownTargetRejected ==
    (/\ last.handler \in {"get_release", "get_download"}
     /\ last.target.present
     /\ UnknownTarget(last.target.val)
     /\ last.outcome = "response")
    => /\ last.status \notin {200, 302}
       /\ last.location = EmptyUrl
       /\ last.body = NoBody

\* the status the error taxonomy fixes for each message
FixedStatus(msg) ==
    CASE msg \in {"Missing target", "Missing arch", "Missing current_version",
                  "Invalid target"} -> 400
      [] msg \in {"No new release found", "No update asset found",
                  "No signature asset found", "No asset found for target"} -> 404
      [] OTHER -> 500

\* C8: every error is answered with the status fixed for its kind: 400 for a
\* missing parameter or an invalid target, 404 for no new release or no matching
\* asset, 500 for upstream, parse and signature failures.
C8_FixedStatusPerError ==
    (last.outcome = "response" /\ last.msg # "") => last.status = FixedStatus(last.msg)

\* C9: next-version returns the first release in list order whose tag differs
\* from the current version as a string, whatever versions the tags denote, and
\* parse_releases fails with "No new release found" exactly when the list is
\* empty or every tag equals the current version.
C9_NextVersionIsFirstDiffering ==
    sel.rule = "next-version" =>
        /\ (sel.result = 0 <=> \A i \in 1..Len(sel.tags) : sel.tags[i] = sel.current)
        /\ (sel.error = "No new release found" <=> sel.result = 0)
        /\ sel.result # 0 =>
              /\ sel.result \in 1..Len(sel.tags)
              /\ sel.tags[sel.result] # sel.current
              /\ \A j \in 1..(sel.result - 1) : sel.tags[j] = sel.current

\* next-version has skipped a release carrying the current tag and returned a
\* release of a lower version than the current one
C9_Witness ==
    /\ sel.rule = "next-version"
    /\ sel.result > 1
    /\ VersionCmp(TagVersion(sel.tags[sel.result]), TagVersion(sel.current)) = "less"

\* the release list the download handler selects from: the cached snapshot when
\* the gate found the cache fresh, the fetched list after a fetch
ListInUse ==
    IF last.path = "cache"
    THEN IF last.kv THEN last.before["recent_releases"].releases ELSE <<>>
    ELSE last.list

\* the installer of the latest-by-semver release of the list in use: 0 when there
\* is no release or no asset ending with the install suffix
InstallerInUse ==
    IF latest_by_semver(ListInUse) = 0 THEN 0
    ELSE find_asset(ListInUse[latest_by_semver(ListInUse)].assets,
                    get_download_extension(last.target.val, last.arch.val), 1)

\* C10: whenever the latest-by-semver release of the list in use (a list of
\* releases with well-formed publish dates) has an asset ending with the install
\* suffix of the target, the download request ends in a redirect to that asset's
\* URL, whatever update or signature assets exist and whatever the snapshot
\* cached before holds.
C10_RedirectToLatestInstaller ==
    (/\ last.handler = "get_download"
     /\ GateReached
     /\ last.path = "refresh" => last.fetch = "ok"
     /\ ~UnknownTarget(last.target.val)
     /\ \A i \in 1..Len(ListInUse) : ListInUse[i].published_at.valid
     /\ InstallerInUse # 0)
    => LET asset == ListInUse[latest_by_semver(ListInUse)].assets[InstallerInUse] IN
       Url_parse(asset.browser_download_url).ok
           => (last.status = 302 /\ last.location = asset.browser_download_url)

\* the keys whose record the request served last has replaced
KeysWritten == {k \in Keys : last.handler # "none" /\ store[k] # last.before[k]}

\* C11: every record a request writes to the namespace carries, as its
\* updated_at, the time of that request: not a release's publish time and not
\* a later time.
C11_StampIsRequestTime ==
    \A k \in KeysWritten :
        parse_from_rfc3339(store[k].updated_at) = [ok |-> TRUE, ts |-> last.at]

\* the request served last has refreshed its cached fact: the release list was
\* fetched, the answer is a success and the namespace stored every put
Refreshed ==
    /\ last.handler # "none"
    /\ last.path = "refresh"
    /\ last.fetch = "ok"
    /\ last.status \in {200, 302}
    /\ last.kv
    /\ last.put = AllStored

\* the instants of the window that a refresh at t opens
WithinWindow(t) == {t, t + 1, t + Window - 1}

\* the same request arriving again at t2, served on the namespace as it is now
ServedAgain(t2) ==
    RunOf(last.handler, store,
          Request(last.target, last.arch, last.current_version, HappyEnv), t2, last.list)

\* C12: once a request has refreshed its cached fact at time t, the same request
\* arriving again before t + 300 is served from the refreshed entry: it takes the
\* cache path and fetches no release list.
C12_RefreshedEntryServesWindow ==
    Refreshed =>
        \A t2 \in WithinWindow(last.at) :
            ServedAgain(t2).path = "cache" /\ ~ServedAgain(t2).fetched

\* the namespace without the wall-clock updated_at of its records
Unstamped(st) ==
    [k \in Keys |->
        IF st[k].kind = "absent" THEN st[k] ELSE [st[k] EXCEPT !.updated_at = EmptyString]]

AllDone == conc.handler # "none" /\ \A i \in Procs : conc.procs[i].pc = "done"

\* what the request of i alone leaves of the namespace the requests started on
AloneLeaves(i) ==
    RunOf(conc.handler, conc.start, conc.procs[i].req, NowStart, conc.list).store

\* C13: when requests of one route that found the same entry stale have all
\* refreshed against the same release list, whatever the interleaving of their
\* gets, fetches and puts, the namespace (updated_at aside) is what one of these
\* requests, served alone, leaves.
C13_ConcurrentRefreshAsOne ==
    AllDone => \E i \in Procs : Unstamped(store) = Unstamped(AloneLeaves(i))

\* download requests whose refreshes store different records have all read the
\* snapshot before any of them stored one, and have all stored theirs, at
\* different times
C13_Witness ==
    /\ AllDone
    /\ conc.handler = "get_download"
    /\ \A i \in Procs :
           /\ conc.procs[i].wrote = 3
           /\ conc.procs[i].view["recent_releases"] = conc.start["recent_releases"]
    /\ \E i, j \in Procs : Unstamped(AloneLeaves(i)) # Unstamped(AloneLeaves(j))
    /\ now > NowStart

\* C14: clean_markdown is idempotent: cleaning a cleaned text changes nothing.
C14_SanitizeIdempotent == san.stage = "twice" => san.twice = san.once

\* the download counts of a release list, asset by asset, release after release
RECURSIVE CountsOf(_)
CountsOf(releases) ==
    IF releases = <<>> THEN <<>>
    ELSE [i \in 1..Len(releases[1].assets) |-> releases[1].assets[i].download_count]
         \o CountsOf(Tail(releases))

RECURSIVE SumOf(_)
SumOf(counts) == IF counts = <<>> THEN 0 ELSE counts[1] + SumOf(Tail(counts))

\* C15: a total-downloads request that has fetched the release list answers 200
\* with the sum of download_count over every asset of every release of that list,
\* which for an empty list is 0; it does not fail.
C15_TotalIsSumOfFetched ==
    (/\ last.handler = "get_total_downloads"
     /\ last.path = "refresh"
     /\ last.fetch = "ok")
    => /\ last.outcome = "response"
       /\ last.status = 200
       /\ last.body.kind = "TotalDownloads"
       /\ last.body.total_downloads = SumOf(CountsOf(last.list))

\* target spells word, each letter in either case
Spells(target, word) ==
    /\ Len(target) = Len(word)
    /\ \A i \in 1..Len(word) : target[i] \in {word[i], UpperChar(word[i])}

\* the table of suffixes by supported target: update artifact, signature, installer
SuffixTable(word) ==
    CASE word \in {T_mac, T_macos, T_darwin} -> <<S_app_tar_gz, S_app_tar_gz_sig, S_dmg>>
      [] word = T_linux -> <<S_AppImage_tar_gz, S_AppImage_tar_gz_sig, S_AppImage>>
      [] word = T_windows -> <<S_nsis_zip, S_nsis_zip_sig, S_setup_exe>>

\* C16: for a target that spells mac, macos, darwin, linux or windows in any
\* letter case the tables return that target's non-empty suffixes, whatever the
\* arch; for every other target they return empty suffixes.
C16_SuffixTablesByTarget ==
    LET words == {w \in SupportedTargets : Spells(mat.target, w)} IN
    /\ mat.updateDone =>
           IF words = {} THEN mat.update = << <<>>, <<>> >>
           ELSE \A w \in words :
                    /\ mat.update = <<SuffixTable(w)[1], SuffixTable(w)[2]>>
                    /\ mat.update[1] # <<>> /\ mat.update[2] # <<>>
    /\ mat.installDone =>
           IF words = {} THEN mat.install = <<>>
           ELSE \A w \in words : mat.install = SuffixTable(w)[3] /\ mat.install # <<>>

\* both tables were looked up for a target written in mixed case, with an arch
\* other than x64
C16_Witness ==
    /\ mat.updateDone /\ mat.installDone
    /\ mat.target \notin SupportedTargets
    /\ Spells(mat.target, T_darwin)
    /\ mat.arch # Arch_x64
    /\ mat.install = S_dmg

\* the place of the release next-version chooses: the first whose tag is not
\* the current version; 0 when there is none
ChosenPlace ==
    LET differing == {i \in 1..Len(res.releases) :
                         res.releases[i].tag_name # res.current_version}
    IN IF differing = {} THEN 0 ELSE Min(differing)

\* the assets of a release whose name ends with a suffix
AssetsEnding(release, suffix) ==
    {i \in 1..Len(release.assets) : ends_with(release.assets[i].name, suffix)}

\* what the chosen release lacks for the target windows, each with its error
Defects(release) ==
    (IF AssetsEnding(release, SuffixTable(T_windows)[1]) = {}
     THEN {"No update asset found"} ELSE {})
    \cup (IF AssetsEnding(release, SuffixTable(T_windows)[2]) = {}
          THEN {"No signature asset found"} ELSE {})
    \cup (IF ~release.published_at.valid
          THEN {"Failed to parse published date"} ELSE {})

\* C17: parse_releases succeeds only when the one release next-version chooses
\* has an update asset, a signature asset and a well-formed publish date, and
\* then version, pub_date, url, signature and notes all come from that release;
\* when that release lacks one of them parse_releases fails with the error of
\* something it lacks, whatever the other releases of the list have.
C17_ResolveFromChosenOnly ==
    (res.stage = "returned" /\ Spells(res.target, T_windows)) =>
        /\ res.out.ok => ChosenPlace # 0
        /\ ChosenPlace # 0 =>
               LET chosen == res.releases[ChosenPlace] IN
               IF Defects(chosen) # {}
               THEN ~res.out.ok /\ res.out.err \in Defects(chosen)
               ELSE res.out.ok =>
                        /\ res.out.val.version = version_string(chosen.tag_name)
                        /\ res.out.val.pub_date.valid
                        /\ res.out.val.pub_date.secs = chosen.published_at.secs
                        /\ \E i \in AssetsEnding(chosen, SuffixTable(T_windows)[1]) :
                               res.out.val.url = chosen.assets[i].browser_download_url
                        /\ \E i \in AssetsEnding(chosen, SuffixTable(T_windows)[2]) :
                               res.out.val.signature =
                                   SignatureBody(chosen.assets[i].browser_download_url)
                        /\ res.out.val.notes = clean_markdown(chosen.body)

\* parse_releases has failed on a chosen release that is not the first of the
\* list and has no well-formed publish date, while another release has all it
\* takes
C17_Witness ==
    /\ res.stage = "returned"
    /\ Spells(res.target, T_windows)
    /\ ChosenPlace > 1
    /\ Defects(res.releases[ChosenPlace]) = {"Failed to parse published date"}
    /\ \E i \in 1..Len(res.releases) : i # ChosenPlace /\ Defects(res.releases[i]) = {}
    /\ ~res.out.ok

\* the record type the handlers that get a key decode its value as
DecodedAs(key) ==
    CASE key \in {"recent_release", "recent_releases"} -> "RecentRelease"
      [] OTHER -> "TotalDownloads"

\* the keys some handler gets
KeysRead ==
    UNION {{ReadKeys(h)[i] : i \in 1..Len(ReadKeys(h))} :
              h \in {"get_total_downloads", "get_release", "get_download"}}

\* C18: in every reachable state the value stored under a key that a handler
\* reads has the record type the handler decodes it as: a key read as a download
\* total never holds a release record, and the other way round.
C18_OneKindPerKey ==
    \A k \in KeysRead : store[k].kind \in {"absent", DecodedAs(k)}

\* C19: a version-check or download request that is answered with an error
\* leaves the namespace as it was: no put precedes an error return.
C19_ErrorLeavesStore ==
    (/\ last.handler \in {"get_release", "get_download"}
     /\ last.outcome = "response"
     /\ last.status >= 400)
    => store = last.before

\* C20: a version-check request that finds the cached snapshot fresh stores
\* nothing and fetches no release list, whether parse_releases succeeds or not:
\* the namespace is the same before and after the request.
C20_FreshCheckLeavesStore ==
    (/\ last.handler = "get_release"
     /\ GateReached
     /\ GateEntryFresh \/ last.path = "cache")
    => (store = last.before /\ ~last.fetched)

\* a version check was answered from a fresh snapshot that lists releases, once
\* parse_releases has succeeded
C20_Witness ==
    /\ last.handler = "get_release"
    /\ GateEntryFresh
    /\ last.before["recent_release"].releases # <<>>
    /\ last.status = 200
    /\ last.body.kind = "ReleaseInfo"


====
